---- MODULE Spec2Model ----
(***************************************************************************)
(* Model of the value algebra of btalib (src/btalib/meta/lines.py): the    *)
(* Line value (a series plus a minperiod), the operator families installed *)
(* on it (binary_op, standard_op, multifunc_op with its _MultiFunc_Op      *)
(* window object and the _ewm seeding protocol) and the Lines bundle with  *)
(* its metadata side tables.                                               *)
(*                                                                         *)
(* A series is a TLA+ sequence; the source's 0-based position i is element *)
(* i + 1.  A float is an exact rational <<n, d>> in lowest terms with      *)
(* d > 0; NaN is <<0, 0>>.                                                 *)
(***************************************************************************)
EXTENDS Integers, Sequences, FiniteSets, TLC

\* ------------------------------------------------------------------ bounds
MaxMinperiod == 3   \* largest minperiod of an input line
MaxPeriod == 3      \* largest period (span / window) parameter
MaxPoffset == 3     \* largest _poffset parameter
MaxEarly == 1       \* largest _pearly parameter
MaxAlphaP == 4      \* largest minperiod of a dynamic alpha line
MaxResolve == 2     \* most operations resolved on one window object

\* length of every series: long enough for the latest seed position
\* (MaxPoffset is at least MaxPeriod and MaxAlphaP - 1)
NLen == MaxMinperiod + MaxPoffset + 1

\* ------------------------------------------------------------ float values
NaN == <<0, 0>>

IsNaN(v) == v[2] = 0

Abs(n) == IF n < 0 THEN -n ELSE n

RECURSIVE GCD(_, _)
GCD(a, b) == IF b = 0 THEN a ELSE GCD(b, a % b)

\* the rational n/d (d # 0) in lowest terms with a positive denominator
Rat(n, d) ==
    LET g == GCD(Abs(n), Abs(d))
        s == IF d < 0 THEN -1 ELSE 1
    IN  <<(s * n) \div g, (s * d) \div g>>

FInt(n) == <<n, 1>>

\* float arithmetic: any NaN operand gives NaN
FAdd(a, b) ==
    IF IsNaN(a) \/ IsNaN(b) THEN NaN
    ELSE LET l == (a[2] * b[2]) \div GCD(a[2], b[2])
         IN  Rat(a[1] * (l \div a[2]) + b[1] * (l \div b[2]), l)

FNeg(a) == IF IsNaN(a) THEN NaN ELSE <<-a[1], a[2]>>

FSub(a, b) == FAdd(a, FNeg(b))

FMul(a, b) ==
    IF IsNaN(a) \/ IsNaN(b) THEN NaN
    ELSE LET g1 == GCD(Abs(a[1]), b[2])
             g2 == GCD(Abs(b[1]), a[2])
         IN  Rat((a[1] \div g1) * (b[1] \div g2), (a[2] \div g2) * (b[2] \div g1))

\* a / b; a zero divisor gives NaN (inf is not modelled, no caller divides by 0)
FDiv(a, b) ==
    IF IsNaN(a) \/ IsNaN(b) \/ b[1] = 0 THEN NaN
    ELSE FMul(a, Rat(b[2], b[1]))

FMax(a, b) ==
    IF IsNaN(a) \/ IsNaN(b) THEN NaN
    ELSE IF a[1] * b[2] >= b[1] * a[2] THEN a ELSE b

\* ------------------------------------------------------------------ series
\* element at the source's 0-based position i
At(s, i) == s[i + 1]

Max2(a, b) == IF a >= b THEN a ELSE b
Min2(a, b) == IF a <= b THEN a ELSE b

\* Python's resolution of a slice bound against a length
SliceBound(b, len) == IF b < 0 THEN Max2(b + len, 0) ELSE Min2(b, len)

\* s[lo:hi] with Python's semantics (negative bounds count from the end)
Slice(s, lo, hi) ==
    LET a == SliceBound(lo, Len(s))
        b == SliceBound(hi, Len(s))
    IN  IF a >= b THEN <<>> ELSE SubSeq(s, a + 1, b)

\* s[lo:]
SliceFrom(s, lo) == Slice(s, lo, Len(s))

\* the elements of s that are not NaN, in order
RECURSIVE DropNaN(_)
DropNaN(s) ==
    IF s = <<>> THEN <<>>
    ELSE IF IsNaN(Head(s)) THEN DropNaN(Tail(s))
    ELSE <<Head(s)>> \o DropNaN(Tail(s))

RECURSIVE FSumSeq(_)
FSumSeq(s) == IF s = <<>> THEN FInt(0) ELSE FAdd(Head(s), FSumSeq(Tail(s)))

\* Series.sum(): NaN are skipped, the sum of nothing is 0
SeriesSum(s) == FSumSeq(DropNaN(s))

\* Series.mean(): NaN are skipped, the mean of nothing is NaN
SeriesMean(s) ==
    LET v == DropNaN(s)
    IN  IF v = <<>> THEN NaN ELSE FDiv(FSumSeq(v), FInt(Len(v)))

\* result[minidx:] = res on a NaN-filled result of length n
StoreFrom(n, minidx, res) ==
    LET lo == SliceBound(minidx, n)
    IN  [k \in 1..n |-> IF k - 1 >= lo /\ k - lo <= Len(res)
                        THEN res[k - lo] ELSE NaN]

\* ------------------------------------------------------- program constants
SEED_AVG == 0
SEED_LAST == 1
SEED_SUM == 2
SEED_NONE == 3

\* multifunc_op(name, period_arg=None, overlap=1, propertize=False)
Overlap == 1

\* Python's None where a float is expected (no rational has denominator -1)
None == <<0, -1>>

\* ------------------------------------------------------------ input domains
\* raw (unwrapped) input series, by position
Ramp == [k \in 1..NLen |-> FInt(k)]
Zig == [k \in 1..NLen |-> FInt((((k - 1) * 3) % 5) + 1)]
RawInputs == {Ramp, Zig}

\* a Line: _series and _minperiod
MkLine(series, minperiod) == [series |-> series, minperiod |-> minperiod]

\* a line whose first m - 1 positions are the NaN warm-up of an earlier op
Warmed(raw, m) == MkLine([k \in 1..Len(raw) |-> IF k < m THEN NaN ELSE raw[k]], m)

InputLines == {Warmed(raw, m) : raw \in RawInputs, m \in 1..MaxMinperiod}

\* smoothing factors passed as numbers
Half == Rat(1, 2)
Quarter == Rat(1, 4)
Alphas == {Half}
\* the beta argument of _mean_exp / _lfilter: absent, zero, or a distinct beta
Betas == {None, FInt(0), Quarter}

\* dynamic alpha lines: a constant one and one that differs at every step
ConstAlpha == [k \in 1..NLen |-> Half]
AltAlpha == [k \in 1..NLen |-> IF k % 2 = 0 THEN Half ELSE Quarter]
AlphaLines == {Warmed(raw, a) : raw \in {ConstAlpha, AltAlpha}, a \in 1..MaxAlphaP}

Seeds == {SEED_AVG, SEED_LAST, SEED_SUM, SEED_NONE}

\* -------------------------------------------------- pandas window functions
\* Python truthiness of an optional float: None and 0 are falsy
Falsy(v) == v = None \/ (v[2] # 0 /\ v[1] = 0)

\* pandas ewm(alpha=alpha, adjust=False, ignore_na=False, min_periods=0).mean()
\* over vals: the running weighted average, restarted at the first observation
RECURSIVE EwmMeanFrom(_, _, _, _, _, _)
EwmMeanFrom(vals, i, avg, old_wt, alpha, out) ==
    IF i > Len(vals) THEN out
    ELSE LET cur == vals[i]
             obs == ~IsNaN(cur)
             wt == FMul(old_wt, FSub(FInt(1), alpha))
             navg == IF IsNaN(avg) THEN cur
                     ELSE IF obs
                          THEN FDiv(FAdd(FMul(wt, avg), FMul(alpha, cur)), FAdd(wt, alpha))
                          ELSE avg
             nwt == IF IsNaN(avg) \/ obs THEN FInt(1) ELSE wt
         IN  EwmMeanFrom(vals, i + 1, navg, nwt, alpha, Append(out, navg))

EwmMean(vals, alpha) ==
    IF vals = <<>> THEN <<>>
    ELSE EwmMeanFrom(vals, 2, vals[1], FInt(1), alpha, <<vals[1]>>)

\* pandas rolling(window=p).sum() / .max() with min_periods = window: NaN until
\* the window holds p observations
RollingWin(vals, i, p) == Slice(vals, Max2(i - p, 0), i)

RECURSIVE FMaxSeq(_)
FMaxSeq(s) == IF Len(s) = 1 THEN s[1] ELSE FMax(Head(s), FMaxSeq(Tail(s)))

RollingAgg(vals, p, fn) ==
    [i \in 1..Len(vals) |->
        LET w == RollingWin(vals, i, p)
        IN  IF Len(DropNaN(w)) < p \/ w = <<>> THEN NaN
            ELSE IF fn = "sum" THEN FSumSeq(w) ELSE FMaxSeq(w)]

\* ------------------------------------------------ _MultiFunc_Op.__init__
\* keyword arguments of x._ewm(...): kind "span" is _ewm(span=p), kind "alpha"
\* is _ewm(alpha=number, span=p), kind "dynalpha" is _ewm(alpha=line, span=p)
NoLine == MkLine(<<>>, 1)

EwmKwargs(kind, period, poffset, pearly, seed, alpha) ==
    [kind |-> kind, period |-> period, poffset |-> poffset, pearly |-> pearly,
     seed |-> seed, alpha |-> alpha]

\* self._alpha_p = getattr(self._alpha_, '_minperiod', 1)
AlphaP(kw, aline) == IF kw.kind = "dynalpha" THEN aline.minperiod ELSE 1

\* mutant: the offset is not extended for a dynamic alpha
EwmPoffset_NoExtension(poffset, pval, alpha_p) == IF poffset # 0 THEN poffset ELSE pval

\* poffset = self._poffset or self._pval, extended for a dynamic alpha
EwmPoffset(poffset, pval, alpha_p) ==
    LET po == IF poffset # 0 THEN poffset ELSE pval
    IN  IF alpha_p > po THEN po + (alpha_p - po - 1) ELSE po

\* p2: seed end
SeedEnd(minperiod, poffset, pearly) == minperiod - 1 + poffset - pearly

\* p1: beginning of the seed calculation
SeedStart(p2, pval) == p2 - pval

\* the value stored in trailprefix[-1]
SeedValue(series, p1, p2, seed) ==
    IF seed = SEED_AVG THEN SeriesMean(Slice(series, p1, p2))
    ELSE IF seed = SEED_LAST THEN At(series, p2 - 1)
    ELSE IF seed = SEED_SUM THEN SeriesSum(Slice(series, p1, p2))
    ELSE NaN

\* trailer = trailprefix.append(series[p2:])
EwmTrailer(series, p1, p2, seed) ==
    <<SeedValue(series, p1, p2, seed)>> \o SliceFrom(series, p2)

\* the alpha handed to pandas' ewm(): 2 / (span + 1), the number given, or the
\* 1.0 that stands in for a dynamic alpha
PandasAlpha(kw) ==
    IF kw.kind = "span" THEN Rat(2, kw.period + 1)
    ELSE IF kw.kind = "alpha" THEN kw.alpha
    ELSE FInt(1)

\* pandas rejects ewm(span=p) with p < 1: "span must satisfy: span >= 1"
PandasEwmError(kw) == IF kw.kind = "span" /\ kw.period < 1 THEN "ValueError" ELSE "none"

\* the window object built by line._ewm(**kw)
EwmObject(line, kw, aline) ==
    LET alpha_p == AlphaP(kw, aline)
        po == EwmPoffset(kw.poffset, kw.period, alpha_p)
        p2 == SeedEnd(line.minperiod, po, kw.pearly)
        p1 == SeedStart(p2, kw.period)
    IN  [name |-> "_ewm", is_seeded |-> FALSE,
         minperiod |-> line.minperiod, pval |-> kw.period, pset |-> TRUE,
         pearly |-> kw.pearly, poffset |-> kw.poffset, seed |-> kw.seed,
         alpha_ |-> aline, alpha_p |-> alpha_p, minidx |-> p2 - 1,
         trailer |-> EwmTrailer(line.series, p1, p2, kw.seed),
         alpha |-> PandasAlpha(kw), err |-> PandasEwmError(kw)]

\* the window object built by line.rolling(window=p)
RollingObject(line, p, period_arg) ==
    [name |-> "rolling", is_seeded |-> FALSE,
     minperiod |-> line.minperiod, pval |-> p, pset |-> period_arg,
     pearly |-> 0, poffset |-> 0, seed |-> SEED_NONE,
     alpha_ |-> NoLine, alpha_p |-> 1, minidx |-> line.minperiod - 1,
     trailer |-> SliceFrom(line.series, line.minperiod - 1),
     alpha |-> FInt(1), err |-> "none"]

\* no window object yet
NoObject ==
    [name |-> "none", is_seeded |-> FALSE, minperiod |-> 1,
     pval |-> 0, pset |-> FALSE, pearly |-> 0, poffset |-> 0, seed |-> SEED_NONE,
     alpha_ |-> NoLine, alpha_p |-> 1, minidx |-> 0, trailer |-> <<>>,
     alpha |-> FInt(1), err |-> "none"]

\* ----------------------------------------------- _MultiFunc_Op resolution
\* mutant: the overlap is not discounted
GetAttrMinperiod_NoOverlap(o) ==
    IF o.pset /\ ~o.is_seeded
    THEN Max2(o.minperiod + o.pval - o.pearly, o.alpha_p)
    ELSE o.minperiod

\* __getattr__: the minperiod the window object takes when an op is resolved
GetAttrMinperiod(o) ==
    IF o.pset /\ ~o.is_seeded
    THEN Max2(o.minperiod + o.pval - Overlap - o.pearly, o.alpha_p)
    ELSE o.minperiod

\* call_op: result[self._minidx:] = res; self._line._clone(result, minperiod)
CallOp(line, minidx, minperiod, vals) ==
    MkLine(StoreFrom(Len(line.series), minidx, vals),
           IF minperiod # 0 THEN minperiod ELSE line.minperiod)

\* if not beta: beta = 1.0 - alpha
EffectiveBeta(alpha, beta) == IF Falsy(beta) THEN FSub(FInt(1), alpha) ELSE beta

\* _sm_acc: x[i] = prev = beta * prev + alpha * x[i]
RECURSIVE SmAccFrom(_, _, _, _, _)
SmAccFrom(x, i, prev, alpha, beta) ==
    IF i > Len(x) THEN x
    ELSE LET v == FAdd(FMul(beta, prev), FMul(alpha, x[i]))
         IN  SmAccFrom([x EXCEPT ![i] = v], i + 1, v, alpha, beta)

SmAcc(x, alpha, beta) == SmAccFrom(x, 2, x[1], alpha, beta)

\* _sp_lfilter: x[0] /= alpha; scipy.signal.lfilter([alpha], [1.0, -beta], x),
\* that is y[n] = alpha * x[n] + beta * y[n - 1] with y[-1] = 0
RECURSIVE LfilterFrom(_, _, _, _, _)
LfilterFrom(x, i, prev, alpha, beta) ==
    IF i > Len(x) THEN x
    ELSE LET v == FAdd(FMul(alpha, x[i]), FMul(beta, prev))
         IN  LfilterFrom([x EXCEPT ![i] = v], i + 1, v, alpha, beta)

SpLfilter(x, alpha, beta) ==
    LfilterFrom([x EXCEPT ![1] = FDiv(x[1], alpha)], 1, FInt(0), alpha, beta)

\* alphas = self._alpha_[self._alpha_p - 1:]
DynAlphas(o) == SliceFrom(o.alpha_.series, o.alpha_p - 1)

\* the loop of _dynalpha: for i, alphai in enumerate(alphas, 1)
RECURSIVE DynAlphaFrom(_, _, _, _)
DynAlphaFrom(vals, alphas, i, prev) ==
    IF i > Len(alphas) THEN vals
    ELSE LET v == FAdd(prev, FMul(alphas[i], FSub(vals[i + 1], prev)))
         IN  DynAlphaFrom([vals EXCEPT ![i + 1] = v], alphas, i + 1, v)

\* _dynalpha fails with an IndexError when alphas outnumber vals[1:]
DynAlphaError(vals, alphas) == IF Len(alphas) > Len(vals) - 1 THEN "IndexError" ELSE "none"

\* _dynalpha: prev = vals[0]; vals[0] = nan; then the loop
DynAlpha(vals, alphas) == DynAlphaFrom([vals EXCEPT ![1] = NaN], alphas, 1, vals[1])

\* ------------------------------------------------- binary_op / standard_op
\* the other operand of a binary op: a Line, or a plain number
Scalar(v) == [series |-> <<>>, minperiod |-> 1, scalar |-> v, is_line |-> FALSE]
Operand(line) ==
    [series |-> line.series, minperiod |-> line.minperiod, scalar |-> NaN, is_line |-> TRUE]
IsScalar(o) == ~o.is_line

\* the pandas binary method named by the op, on two floats
BinFn(name, a, b) ==
    IF name = "__add__" THEN FAdd(a, b)
    ELSE IF name = "__sub__" THEN FSub(a, b)
    ELSE FMul(a, b)

BinOps == {"__add__", "__sub__", "__mul__"}

\* mutant: the other operand's minperiod is ignored
BinaryMinperiod_SelfOnly(self, other) == self.minperiod

\* minperiod = max(self._minperiod, getattr(other, '_minperiod', 1))
BinaryMinperiod(self, other) ==
    Max2(self.minperiod, IF IsScalar(other) THEN 1 ELSE other.minperiod)

\* real_binary_op: binop on self._series[minidx:] and other[minidx:], stored
\* in result[minidx:]
BinaryOp(name, self, other) ==
    LET minperiod == BinaryMinperiod(self, other)
        minidx == minperiod - 1
        a == SliceFrom(self.series, minidx)
        b == IF IsScalar(other) THEN [k \in 1..Len(a) |-> other.scalar]
             ELSE SliceFrom(other.series, minidx)
        r == [k \in 1..Len(a) |-> BinFn(name, a[k], b[k])]
    IN  MkLine(StoreFrom(Len(self.series), minidx, r),
               IF minperiod # 0 THEN minperiod ELSE self.minperiod)

\* Series.shift(periods=p): the pandas method behind the standard op modelled
Shift(series, p) ==
    [k \in 1..Len(series) |-> IF k - p >= 1 /\ k - p <= Len(series) THEN series[k - p] ELSE NaN]

\* standard_op(name, period_arg=None, overlap=0, sargs=False, skwargs=False)
StandardOverlap == 0

\* mutant: the overlap is not discounted
StandardMinperiod_NoOverlap(minperiod, period_arg, p, overlap) ==
    IF period_arg THEN minperiod + p ELSE minperiod

\* real_standard_op: line._minperiod += kwargs.get(period_arg) - overlap
StandardMinperiod(minperiod, period_arg, p, overlap) ==
    IF period_arg THEN minperiod + p - overlap ELSE minperiod

StandardOp(self, period_arg, p, overlap) ==
    MkLine(Shift(self.series, p), StandardMinperiod(self.minperiod, period_arg, p, overlap))

\* --------------------------------------------------------------- the state
VARIABLES
    x,      \* the line the operations are applied to
    obj,    \* the window object made by x._ewm(...) / x.rolling(...)
    nres,   \* how many operations have been resolved on obj
    call,   \* the last operation called and its arguments
    res,    \* what the last operation returned or raised
    slots,  \* bundle: the member stored in each declared slot
    md,     \* bundle: its entries in metadata.minperiods / metadata.minperiod
    heap,   \* object store: the pandas Series objects, by identity
    lines,  \* object store: the Line objects, each naming its Series object
    members,\* object store: the Line object held by each slot of a bundle
    last,   \* object store: the last operation, its operands and what it gave
    gen     \* the bundle class made by _generate, and an instance of it

vars == <<x, obj, nres, call, res, slots, md, heap, lines, members, last, gen>>

\* the variables of the value-level operations, and those of the object store
valvars == <<x, obj, nres, call, res, slots, md>>
objvars == <<heap, lines, members, last>>

NoLast == [op |-> "none", self |-> 0, other |-> 0, ret |-> 0, err |-> "none"]

NoKw == EwmKwargs("none", 0, 0, 0, SEED_NONE, None)

Call(op, kw, p, alpha, beta, other) ==
    [op |-> op, kw |-> kw, p |-> p, alpha |-> alpha, beta |-> beta, other |-> other]

NoCall == Call("none", NoKw, 0, None, None, Scalar(NaN))

NoRes == [status |-> "none", err |-> "none", line |-> NoLine]
Returned(line) == [status |-> "line", err |-> "none", line |-> line]
Raised(err) == [status |-> "error", err |-> err, line |-> NoLine]

\* ------------------------------------------------------------ Lines bundle
\* __slots__ of the generated bundle class, in declaration order
Slots == <<"a", "b", "c">>
SlotIdx == 1..Len(Slots)

Unset == [set |-> FALSE, line |-> NoLine]
Member(line) == [set |-> TRUE, line |-> line]

\* the lines assigned to bundle members
MemberLines == {Warmed(Ramp, m) : m \in 1..MaxMinperiod}

\* Line(val, name) for a Line val: the wrapper takes val's minperiod and series
WrapLine(val) == MkLine(val.series, val.minperiod)

\* Lines.__setattr__ on a declared slot
SetSlot(sl, i, val) == [sl EXCEPT ![i] = Member(WrapLine(val))]

\* Lines.__init__: the metadata entries are reset, then args fill the slots
RECURSIVE InitSlots(_, _, _)
InitSlots(sl, args, i) ==
    IF i > Len(args) \/ i > Len(Slots) THEN sl
    ELSE InitSlots(SetSlot(sl, i, args[i]), args, i + 1)

InitMd == [minperiods |-> [i \in SlotIdx |-> 1], minperiod |-> 1]

RECURSIVE MaxOf(_)
MaxOf(s) == IF Len(s) = 1 THEN s[1] ELSE Max2(Head(s), MaxOf(Tail(s)))

\* Lines._update_minperiod
UpdatedMd(sl) ==
    LET minperiods == [i \in SlotIdx |-> sl[i].line.minperiod]
    IN  [minperiods |-> minperiods, minperiod |-> MaxOf(minperiods)]

\* Lines._minperiod and Lines._minperiods: the cached entries
BundleMinperiod == md.minperiod
BundleMinperiods == md.minperiods

\* ------------------------------------------------------ operations on a line
NoBundle == [i \in SlotIdx |-> Unset]

\* no object has been made in the object store
NoObjects ==
    /\ heap = <<>>
    /\ lines = <<>>
    /\ members = [i \in SlotIdx |-> 0]
    /\ last = NoLast
    /\ gen = [made |-> FALSE]

Init ==
    /\ x \in InputLines
    /\ obj = NoObject
    /\ nres = 0
    /\ call = NoCall
    /\ res = NoRes
    /\ slots = NoBundle
    /\ md = InitMd
    /\ NoObjects

\* the parameter combinations of x._ewm(...)
EwmKinds == {"span", "alpha"}

EwmArgs(kinds) ==
    {EwmKwargs(kind, period, poffset, pearly, seed, IF kind = "alpha" THEN Half ELSE None) :
        kind \in kinds, period \in 0..MaxPeriod, poffset \in 0..MaxPoffset,
        pearly \in 0..MaxEarly, seed \in Seeds}

\* x._ewm(**kw): _MultiFunc_Op.__init__.  The seed position p2 - 1 is taken
\* inside the series (p2 >= 1); NLen keeps p2 below the end.
EwmCall(kw, aline) ==
    /\ obj.name = "none" /\ res.status = "none"
    /\ SeedEnd(x.minperiod, EwmPoffset(kw.poffset, kw.period, AlphaP(kw, aline)), kw.pearly) >= 1
    /\ LET o == EwmObject(x, kw, aline)
       IN  /\ call' = Call("_ewm", kw, kw.period, None, None, Scalar(NaN))
           /\ IF o.err = "none"
              THEN obj' = o /\ res' = res
              ELSE obj' = obj /\ res' = Raised(o.err)
    /\ UNCHANGED <<x, nres, slots, md, objvars, gen>>

\* x._ewm(span=p, ...) and x._ewm(alpha=number, span=p, ...)
Ewm(kw) == EwmCall(kw, NoLine)

\* x._ewm(alpha=line, span=p, ...)
EwmDyn(kw, aline) == EwmCall(kw, aline)

\* the operation table installs rolling with period_arg='window'
RollingPeriodArg == TRUE

\* x.rolling(window=p)
Rolling(p) ==
    /\ obj.name = "none" /\ res.status = "none"
    /\ obj' = RollingObject(x, p, RollingPeriodArg)
    /\ call' = Call("rolling", NoKw, p, None, None, Scalar(NaN))
    /\ UNCHANGED <<x, nres, res, slots, md, objvars, gen>>

\* one resolution through __getattr__ and call_op with the op's output vals,
\* on the window object o: __getattr__ updates the object's own _minperiod
ResolveOn(o, op, alpha, beta, err, vals) ==
    LET minperiod == GetAttrMinperiod(o)
    IN  /\ nres' = nres + 1
        /\ obj' = [o EXCEPT !.minperiod = minperiod]
        /\ call' = Call(op, call.kw, call.p, alpha, beta, Scalar(NaN))
        /\ res' = IF err = "none" THEN Returned(CallOp(x, o.minidx, minperiod, vals))
                  ELSE Raised(err)
        /\ UNCHANGED <<x, slots, md, objvars, gen>>

\* the first resolution on the window object
Resolve(op, alpha, beta, err, vals) ==
    /\ nres = 0
    /\ ResolveOn(obj, op, alpha, beta, err, vals)

\* obj.mean(): pandas' own exponentially weighted mean
Mean ==
    /\ obj.name = "_ewm" /\ call.kw.kind # "dynalpha"
    /\ Resolve("mean", None, None, "none", EwmMean(obj.trailer, obj.alpha))

\* obj._mean_exp(alpha, beta)
MeanExp(alpha, beta) ==
    /\ obj.name = "_ewm" /\ call.kw.kind = "span"
    /\ Resolve("_mean_exp", alpha, beta, "none",
               SmAcc(obj.trailer, alpha, EffectiveBeta(alpha, beta)))

\* obj._lfilter(alpha, beta): scipy's lfilter, or _mean_exp without scipy
Lfilter(alpha, beta, scipy) ==
    /\ obj.name = "_ewm" /\ call.kw.kind = "span"
    /\ Resolve("_lfilter", alpha, beta, "none",
               IF scipy THEN SpLfilter(obj.trailer, alpha, EffectiveBeta(alpha, beta))
               ELSE SmAcc(obj.trailer, alpha, EffectiveBeta(alpha, beta)))

\* obj._mean(): the recursion with the dynamic alpha
DynMean ==
    /\ obj.name = "_ewm" /\ call.kw.kind = "dynalpha"
    /\ LET alphas == DynAlphas(obj)
           err == DynAlphaError(obj.trailer, alphas)
       IN  Resolve("_mean", None, None, err,
                   IF err = "none" THEN DynAlpha(obj.trailer, alphas) ELSE <<>>)

\* obj.sum() / obj.max() on a rolling window
RollingOp(fn) ==
    /\ obj.name = "rolling"
    /\ Resolve(fn, None, None, "none", RollingAgg(obj.trailer, obj.pval, fn))

\* x <binop> other
Binary(name, other) ==
    /\ obj.name = "none" /\ res.status = "none"
    /\ call' = Call(name, NoKw, 0, None, None, other)
    /\ res' = Returned(BinaryOp(name, x, other))
    /\ UNCHANGED <<x, obj, nres, slots, md, objvars, gen>>

\* x.shift(periods=p), installed with or without a period_arg and an overlap
Standard(period_arg, p, overlap) ==
    /\ obj.name = "none" /\ res.status = "none"
    /\ call' = Call("shift", [NoKw EXCEPT !.kind = IF period_arg THEN "periods" ELSE "none",
                                         !.pearly = overlap],
                    p, None, None, Scalar(NaN))
    /\ res' = Returned(StandardOp(x, period_arg, p, overlap))
    /\ UNCHANGED <<x, obj, nres, slots, md, objvars, gen>>

\* x.shift(p) on an op installed with a period_arg: the period is not among the
\* keyword arguments, kwargs.get(period_arg) is None and None - overlap raises
StandardPositional(p, overlap) ==
    /\ obj.name = "none" /\ res.status = "none"
    /\ call' = Call("shift", [NoKw EXCEPT !.kind = "positional", !.pearly = overlap],
                    p, None, None, Scalar(NaN))
    /\ res' = Raised("TypeError")
    /\ UNCHANGED <<x, obj, nres, slots, md, objvars, gen>>

BinaryOperands == {Operand(l) : l \in InputLines} \cup {Scalar(FInt(2))}

Next ==
    \/ \E kw \in EwmArgs(EwmKinds) : Ewm(kw)
    \/ \E p \in 1..MaxPeriod : Rolling(p)
    \/ Mean
    \/ \E alpha \in Alphas, beta \in Betas : MeanExp(alpha, beta)
    \/ \E alpha \in Alphas, beta \in Betas, scipy \in BOOLEAN : Lfilter(alpha, beta, scipy)
    \/ \E fn \in {"sum", "max"} : RollingOp(fn)
    \/ \E name \in BinOps, other \in BinaryOperands : Binary(name, other)
    \/ \E period_arg \in BOOLEAN, p \in 0..MaxPeriod, overlap \in {StandardOverlap, 1} :
            Standard(period_arg, p, overlap)
    \/ \E p \in 0..MaxPeriod, overlap \in {StandardOverlap, 1} : StandardPositional(p, overlap)

Spec == Init /\ [][Next]_vars

\* smoothing with a dynamic alpha
DynNext ==
    \/ \E kw \in EwmArgs({"dynalpha"}), aline \in AlphaLines : EwmDyn(kw, aline)
    \/ DynMean

DynSpec == Init /\ [][DynNext]_vars

\* ------------------------------------- several operations on one window object
\* obj._seeded: the property sets _is_seeded and returns the object itself
Seeded(o) == [o EXCEPT !.is_seeded = TRUE]

\* obj.sum() / obj.max(), or obj._seeded.sum() / obj._seeded.max(), on a
\* rolling window that may have resolved operations before
RollingResolve(fn, seeded) ==
    /\ obj.name = "rolling"
    /\ nres < MaxResolve
    /\ ResolveOn(IF seeded THEN Seeded(obj) ELSE obj, fn, None, None, "none",
                 RollingAgg(obj.trailer, obj.pval, fn))

\* obj.mean(), or obj._seeded.mean(), on an _ewm object that may have resolved
\* operations before
MeanResolve(seeded) ==
    /\ obj.name = "_ewm"
    /\ nres < MaxResolve
    /\ ResolveOn(IF seeded THEN Seeded(obj) ELSE obj, "mean", None, None, "none",
                 EwmMean(obj.trailer, obj.alpha))

ReuseNext ==
    \/ \E kw \in EwmArgs({"span"}) : Ewm(kw)
    \/ \E p \in 1..MaxPeriod : Rolling(p)
    \/ \E fn \in {"sum", "max"}, seeded \in BOOLEAN : RollingResolve(fn, seeded)
    \/ \E seeded \in BOOLEAN : MeanResolve(seeded)

ReuseSpec == Init /\ [][ReuseNext]_vars

\* ------------------------------------------------- operations on a bundle
\* the positional arguments of the bundle's constructor
RECURSIVE ArgLists(_)
ArgLists(n) ==
    IF n = 0 THEN {<<>>}
    ELSE ArgLists(n - 1) \cup {Append(a, l) : a \in {b \in ArgLists(n - 1) : Len(b) = n - 1},
                                              l \in MemberLines}

\* the state after Lines.__init__(*args)
BundleInit ==
    /\ x \in {Warmed(Ramp, 1)}
    /\ obj = NoObject
    /\ nres = 0
    /\ call = NoCall
    /\ res = NoRes
    /\ \E args \in ArgLists(Len(Slots)) : slots = InitSlots(NoBundle, args, 1)
    /\ md = InitMd
    /\ NoObjects

\* bundle.<name> = val
SetAttr(i, val) ==
    /\ slots' = SetSlot(slots, i, val)
    /\ call' = Call("__setattr__", NoKw, i, None, None, Operand(val))
    /\ res' = NoRes
    /\ UNCHANGED <<x, obj, nres, md, objvars, gen>>

\* bundle[i] = val: setattr(self, self.__slots__[item], val)
SetItem(i, val) ==
    /\ slots' = SetSlot(slots, i, val)
    /\ call' = Call("__setitem__", NoKw, i, None, None, Operand(val))
    /\ res' = NoRes
    /\ UNCHANGED <<x, obj, nres, md, objvars, gen>>

\* bundle._update_minperiod(): reading an unassigned slot raises AttributeError
UpdateMinperiod ==
    /\ call' = Call("_update_minperiod", NoKw, 0, None, None, Scalar(NaN))
    /\ IF \A i \in SlotIdx : slots[i].set
       THEN md' = UpdatedMd(slots) /\ res' = NoRes
       ELSE md' = md /\ res' = Raised("AttributeError")
    /\ UNCHANGED <<x, obj, nres, slots, objvars, gen>>

BundleNext ==
    \/ \E i \in SlotIdx, val \in MemberLines : SetAttr(i, val)
    \/ \E i \in SlotIdx, val \in MemberLines : SetItem(i, val)
    \/ UpdateMinperiod

BundleSpec == BundleInit /\ [][BundleNext]_vars

\* ------------------------------------------------- retrieval from a bundle
\* the names a member is asked for by: the declared ones and one that is not
Undeclared == "z"
Names == {Slots[i] : i \in SlotIdx} \cup {Undeclared}

\* the positions a member is asked for by: Python accepts -n .. n - 1
Positions == (0 - Len(Slots) - 1)..Len(Slots)

Declared(name) == \E i \in SlotIdx : Slots[i] = name

\* self.__slots__.index(item): the first slot of that name (1-based here)
SlotsIndex(name) == CHOOSE i \in SlotIdx : Slots[i] = name /\ \A k \in 1..(i - 1) : Slots[k] # name

\* mutant: positions count from the last declared name
PositionSlot_Reversed(item) == IF item >= 0 THEN Len(Slots) - item ELSE 0 - item

\* self.__slots__[item] for an integer item (1-based here)
PositionSlot(item) == IF item >= 0 THEN item + 1 ELSE Len(Slots) + item + 1

\* the call's record: the operation, and in kw.kind the name it was given
NameCall(op, name) == Call(op, [NoKw EXCEPT !.kind = name], 0, None, None, Scalar(NaN))

\* what a retrieval that swallowed its error returns: the default
Defaulted == [status |-> "default", err |-> "none", line |-> NoLine]

\* what an iteration returns: the members in the order they were yielded
Yielded(seq) == [status |-> "lines", err |-> "none", line |-> seq]

\* getattr(self, name): the Line in the slot; AttributeError for a name that
\* is not a slot, and for a slot nothing was assigned to
GetAttrOf(sl, name) ==
    IF ~Declared(name) THEN Raised("AttributeError")
    ELSE IF ~sl[SlotsIndex(name)].set THEN Raised("AttributeError")
    ELSE Returned(sl[SlotsIndex(name)].line)

\* bundle.<name>
GetAttr(name) ==
    /\ call' = NameCall("__getattr__", name)
    /\ res' = GetAttrOf(slots, name)
    /\ UNCHANGED <<x, obj, nres, slots, md, objvars, gen>>

\* bundle[name] for a string: list.index raises ValueError for an unknown name
GetItemName(name) ==
    /\ call' = NameCall("__getitem__", name)
    /\ res' = IF ~Declared(name) THEN Raised("ValueError")
              ELSE GetAttrOf(slots, Slots[SlotsIndex(name)])
    /\ UNCHANGED <<x, obj, nres, slots, md, objvars, gen>>

\* bundle[item] for an integer: a position out of range raises IndexError
GetItem(item) ==
    /\ call' = Call("__getitem__", [NoKw EXCEPT !.kind = "int"], item, None, None, Scalar(NaN))
    /\ res' = IF item >= Len(Slots) \/ item < 0 - Len(Slots) THEN Raised("IndexError")
              ELSE GetAttrOf(slots, Slots[PositionSlot(item)])
    /\ UNCHANGED <<x, obj, nres, slots, md, objvars, gen>>

\* bundle._get(key): the AttributeError is swallowed and the default returned
Get(key) ==
    /\ call' = NameCall("_get", key)
    /\ res' = LET got == GetAttrOf(slots, key)
              IN  IF got.status = "error" THEN Defaulted ELSE got
    /\ UNCHANGED <<x, obj, nres, slots, md, objvars, gen>>

\* list(bundle): getattr on every slot in the order of __slots__
Iter ==
    /\ call' = NameCall("__iter__", "")
    /\ res' = IF \A i \in SlotIdx : slots[i].set
              THEN Yielded([i \in SlotIdx |-> GetAttrOf(slots, Slots[i]).line])
              ELSE Raised("AttributeError")
    /\ UNCHANGED <<x, obj, nres, slots, md, objvars, gen>>

\* list(bundle.keys()): the names of __slots__
Keys ==
    /\ call' = NameCall("keys", "")
    /\ res' = Yielded(Slots)
    /\ UNCHANGED <<x, obj, nres, slots, md, objvars, gen>>

\* the state after Lines.__init__(*args), the arguments kept in call.other
AccessInit ==
    /\ x \in {Warmed(Ramp, 1)}
    /\ obj = NoObject
    /\ nres = 0
    /\ res = NoRes
    /\ \E args \in ArgLists(Len(Slots)) :
           /\ slots = InitSlots(NoBundle, args, 1)
           /\ call = [NoCall EXCEPT !.op = "__init__", !.other = args]
    /\ md = InitMd
    /\ NoObjects

AccessNext ==
    \/ \E i \in SlotIdx, val \in MemberLines : SetAttr(i, val)
    \/ \E i \in SlotIdx, val \in MemberLines : SetItem(i, val)
    \/ \E name \in Names : GetAttr(name)
    \/ \E name \in Names : GetItemName(name)
    \/ \E item \in Positions : GetItem(item)
    \/ \E key \in Names : Get(key)
    \/ Iter
    \/ Keys

AccessSpec == AccessInit /\ [][AccessNext]_vars

\* ------------------------------------------- objects: identity and aliasing
\* Line objects and the Series objects they name are kept by identity, so that
\* two Line objects can share one Series object and an assignment through one
\* is seen through the other.
MaxLines == 3       \* largest number of Line objects made

\* the parameters the operations are called with in the object store
ObjPeriods == 1..2
ObjShifts == 0..1
ObjOverlaps == {StandardOverlap, 1}
SetItems == {NLen - 1}
SetValues == {FInt(0)}

LineIds == 1..Len(lines)

\* a Line object: the identity of its _series, and its _minperiod
LineObj(ser, minperiod) == [ser |-> ser, minperiod |-> minperiod]

\* the Line object l as a value: the content of its Series object, its minperiod
LineVal(l) == MkLine(heap[lines[l].ser], lines[l].minperiod)

Done(op, self, other, ret) == [op |-> op, self |-> self, other |-> other, ret |-> ret, err |-> "none"]
Failed(op, self, err) == [op |-> op, self |-> self, other |-> 0, ret |-> 0, err |-> err]

\* self._clone(series, period) on a Series the operation has just made: the new
\* Series object is stored and a new Line object names it
CloneNew(r) ==
    /\ heap' = Append(heap, r.series)
    /\ lines' = Append(lines, LineObj(Len(heap) + 1, r.minperiod))

\* Line(series) for a raw pandas Series: minperiod 1, the Series itself is kept
LineOfSeries(sid) ==
    /\ Len(lines) < MaxLines
    /\ lines' = Append(lines, LineObj(sid, 1))
    /\ last' = Done("Line(series)", 0, 0, Len(lines) + 1)
    /\ UNCHANGED <<heap, members, valvars, gen>>

\* mutant: the wrapper starts over with minperiod 1
WrapObj_Reset(val) == LineObj(val.ser, 1)

\* Line(val) for a Line val: self._minperiod = val._minperiod;
\* self._series = val._series
WrapObj(val) == LineObj(val.ser, val.minperiod)

\* Line(line)
LineOfLine(l) ==
    /\ Len(lines) < MaxLines
    /\ lines' = Append(lines, WrapObj(lines[l]))
    /\ last' = Done("Line(line)", l, 0, Len(lines) + 1)
    /\ UNCHANGED <<heap, members, valvars, gen>>

\* Line(bundle): val = val[0], then as for a Line; reading the first slot
\* before it is assigned raises AttributeError
LineOfLines ==
    /\ Len(lines) < MaxLines
    /\ IF members[1] = 0
       THEN lines' = lines /\ last' = Failed("Line(lines)", 0, "AttributeError")
       ELSE /\ lines' = Append(lines, WrapObj(lines[members[1]]))
            /\ last' = Done("Line(lines)", members[1], 0, Len(lines) + 1)
    /\ UNCHANGED <<heap, members, valvars, gen>>

\* bundle.<name> = val for a Line val: the slot takes Line(val, name)
MemberSet(i, l) ==
    /\ Len(lines) < MaxLines
    /\ lines' = Append(lines, WrapObj(lines[l]))
    /\ members' = [members EXCEPT ![i] = Len(lines) + 1]
    /\ last' = Done("__setattr__", l, i, Len(lines) + 1)
    /\ UNCHANGED <<heap, valvars, gen>>

\* line[item] = value: self._series[item] = value
LineSetItem(l, item, value) ==
    /\ At(heap[lines[l].ser], item) # value
    /\ heap' = [heap EXCEPT ![lines[l].ser][item + 1] = value]
    /\ last' = Done("__setitem__", l, item, 0)
    /\ UNCHANGED <<lines, members, valvars, gen>>

\* _INCPERIOD(x, p): x._minperiod += p
IncPeriod(l, p) ==
    /\ lines[l].minperiod + p <= MaxMinperiod
    /\ lines' = [lines EXCEPT ![l].minperiod = @ + p]
    /\ last' = Done("_INCPERIOD", l, p, 0)
    /\ UNCHANGED <<heap, members, valvars, gen>>

\* _DECPERIOD(x, p): x._minperiod -= p
DecPeriod(l, p) ==
    /\ lines[l].minperiod - p >= 0
    /\ lines' = [lines EXCEPT ![l].minperiod = @ - p]
    /\ last' = Done("_DECPERIOD", l, p, 0)
    /\ UNCHANGED <<heap, members, valvars, gen>>

\* lines[l] <binop> lines[o]
ObjBinary(name, l, o) ==
    /\ Len(lines) < MaxLines
    /\ CloneNew(BinaryOp(name, LineVal(l), Operand(LineVal(o))))
    /\ last' = Done(name, l, o, Len(lines) + 1)
    /\ UNCHANGED <<members, valvars, gen>>

\* lines[l].sum(): a reduction op returns what the pandas method returns, a
\* number, and makes no Line
ObjReduction(l) ==
    /\ last' = Done("reduction", l, 0, 0)
    /\ UNCHANGED <<heap, lines, members, valvars, gen>>

\* mutant: the period is added to the operand's minperiod
StandardTarget_Self(self, line) == self

\* line = self._clone(...); line._minperiod += ...: the Line object whose
\* minperiod the standard op adjusts
StandardTarget(self, line) == line

\* lines[l].shift(periods=p), installed with period_arg='periods' and an overlap
ObjStandard(l, p, overlap) ==
    /\ Len(lines) < MaxLines
    /\ LET line == Len(lines) + 1
           cloned == Append(lines, LineObj(Len(heap) + 1, lines[l].minperiod))
       IN  /\ heap' = Append(heap, Shift(heap[lines[l].ser], p))
           /\ lines' = [cloned EXCEPT ![StandardTarget(l, line)].minperiod =
                                           StandardMinperiod(@, TRUE, p, overlap)]
           /\ last' = Done("shift", l, p - overlap, line)
    /\ UNCHANGED <<members, valvars, gen>>

\* lines[l].rolling(window=p).sum() / .max(): a window object made and resolved
ObjRolling(l, p, fn) ==
    /\ Len(lines) < MaxLines
    /\ LET o == RollingObject(LineVal(l), p, RollingPeriodArg)
       IN  CloneNew(CallOp(LineVal(l), o.minidx, GetAttrMinperiod(o),
                           RollingAgg(o.trailer, p, fn)))
    /\ last' = Done(fn, l, p, Len(lines) + 1)
    /\ UNCHANGED <<members, valvars, gen>>

\* lines[l]._ewm(span=p, _pearly=early).mean(): a window object made and resolved
ObjEwm(l, p, early) ==
    /\ Len(lines) < MaxLines
    /\ LET kw == EwmKwargs("span", p, 0, early, SEED_AVG, None)
           p2 == SeedEnd(lines[l].minperiod, EwmPoffset(0, p, 1), early)
       IN  /\ p2 >= 1 /\ p2 < NLen
           /\ LET o == EwmObject(LineVal(l), kw, NoLine)
              IN  CloneNew(CallOp(LineVal(l), o.minidx, GetAttrMinperiod(o),
                                  EwmMean(o.trailer, o.alpha)))
    /\ last' = Done("mean", l, p, Len(lines) + 1)
    /\ UNCHANGED <<members, valvars, gen>>

\* the state before any Line is made: one raw Series exists
PeriodInit ==
    /\ x = Warmed(Ramp, 1)
    /\ obj = NoObject
    /\ nres = 0
    /\ call = NoCall
    /\ res = NoRes
    /\ slots = NoBundle
    /\ md = InitMd
    /\ heap = <<Ramp>>
    /\ lines = <<>>
    /\ members = [i \in SlotIdx |-> 0]
    /\ last = NoLast
    /\ gen = [made |-> FALSE]

\* one raw Series exists, and the line x that an earlier operation has given,
\* with its warm-up
ObjInit ==
    /\ x \in MemberLines
    /\ obj = NoObject
    /\ nres = 0
    /\ call = NoCall
    /\ res = NoRes
    /\ slots = NoBundle
    /\ md = InitMd
    /\ heap = <<Ramp, x.series>>
    /\ lines = <<LineObj(2, x.minperiod)>>
    /\ members = [i \in SlotIdx |-> 0]
    /\ last = NoLast
    /\ gen = [made |-> FALSE]

\* one operation of each operator family, on lines and on their wrappers
ObjNext ==
    \/ \E l \in LineIds : LineOfLine(l)
    \/ \E l \in LineIds, o \in LineIds : ObjBinary("__add__", l, o)
    \/ \E l \in LineIds, p \in ObjShifts, overlap \in ObjOverlaps : ObjStandard(l, p, overlap)
    \/ \E l \in LineIds : ObjRolling(l, 2, "sum")
    \/ \E l \in LineIds : ObjEwm(l, 2, 0)
    \/ \E l \in LineIds : ObjReduction(l)

ObjSpec == ObjInit /\ [][ObjNext]_vars

\* wrapping, bundle members and index assignment
WrapNext ==
    \/ LineOfSeries(1)
    \/ \E l \in LineIds : LineOfLine(l)
    \/ LineOfLines
    \/ \E i \in SlotIdx, l \in LineIds : MemberSet(i, l)
    \/ \E l \in LineIds, item \in SetItems, value \in SetValues : LineSetItem(l, item, value)

WrapSpec == ObjInit /\ [][WrapNext]_vars

\* operations and minperiod adjustments, one after the other
MaxChain == 2       \* largest number of Line objects in a chain of adjustments

\* a new Line object can still join the chain
Chain == Len(lines) < MaxChain

PeriodNext ==
    \/ \E l \in LineIds : IncPeriod(l, 1)
    \/ \E l \in LineIds : DecPeriod(l, 1)
    \/ Chain /\ LineOfSeries(1)
    \/ Chain /\ \E l \in LineIds, o \in LineIds : ObjBinary("__add__", l, o)
    \/ Chain /\ \E l \in LineIds, p \in ObjShifts, overlap \in ObjOverlaps :
                    ObjStandard(l, p, overlap)
    \/ Chain /\ \E l \in LineIds, p \in ObjPeriods, fn \in {"sum", "max"} :
                    ObjRolling(l, p, fn)
    \/ Chain /\ \E l \in LineIds, p \in ObjPeriods, early \in 0..1 : ObjEwm(l, p, early)

PeriodSpec == PeriodInit /\ [][PeriodNext]_vars

\* --------------------------------------------------------------- _generate
\* A definition (dct[name]) is a sequence of entries: a plain name, or a
\* remapping new => old, written here with old = "" for a plain name.  A dict
\* is a sequence of <<key, value>> pairs in insertion order.
Plain(new) == [new |-> new, old |-> ""]
Remap(new, old) == [new |-> new, old |-> old]

DictHas(m, k) == \E i \in 1..Len(m) : m[i][1] = k

\* defmappings.update({k: v})
DictUpdate(m, k, v) ==
    IF DictHas(m, k) THEN [i \in 1..Len(m) |-> IF m[i][1] = k THEN <<k, v>> ELSE m[i]]
    ELSE Append(m, <<k, v>>)

\* defmappings.setdefault(k, v)
DictSetDefault(m, k, v) == IF DictHas(m, k) THEN m ELSE Append(m, <<k, v>>)

DictValues(m) == {m[i][2] : i \in 1..Len(m)}

\* cdefs: the new names of the definition, in order
NewNames(clsdefs) == [i \in 1..Len(clsdefs) |-> clsdefs[i].new]

\* the loop over clsdefs: the remappings written as dicts
RECURSIVE DictMappings(_, _, _)
DictMappings(clsdefs, i, m) ==
    IF i > Len(clsdefs) THEN m
    ELSE DictMappings(clsdefs, i + 1,
                      IF clsdefs[i].old # "" THEN DictUpdate(m, clsdefs[i].new, clsdefs[i].old)
                      ELSE m)

InSeq(v, seq) == \E i \in 1..Len(seq) : seq[i] = v

\* for clsdef, lbdef in zip(clsdefs, lbdefs): the mappings by index
RECURSIVE AutoMappings(_, _, _, _)
AutoMappings(cdefs, lbdefs, i, m) ==
    IF i > Len(cdefs) \/ i > Len(lbdefs) THEN m
    ELSE AutoMappings(cdefs, lbdefs, i + 1,
                      IF InSeq(lbdefs[i], cdefs) THEN m
                      ELSE DictSetDefault(m, cdefs[i], lbdefs[i]))

\* defmappings for a definition over the definitions of the bases
DefMappings(clsdefs, lbdefs) ==
    LET m == DictMappings(clsdefs, 1, <<>>)
    IN  IF clsdefs # <<>> THEN AutoMappings(NewNames(clsdefs), lbdefs, 1, m) ELSE m

\* reversed(dict.fromkeys(reversed(final_defs))): the last of each name is kept
IsLast(seq, i) == \A j \in (i + 1)..Len(seq) : seq[j] # seq[i]

RECURSIVE DedupLast(_, _)
DedupLast(seq, i) ==
    IF i > Len(seq) THEN <<>>
    ELSE (IF IsLast(seq, i) THEN <<seq[i]>> ELSE <<>>) \o DedupLast(seq, i + 1)

\* tuple(x for x in lines if x not in remapped)
RECURSIVE NotRemapped(_, _, _)
NotRemapped(seq, i, remapped) ==
    IF i > Len(seq) THEN <<>>
    ELSE (IF seq[i] \notin remapped THEN <<seq[i]>> ELSE <<>>)
         \o NotRemapped(seq, i + 1, remapped)

\* lines: the final definitions without the names that were remapped
GenLines(clsdefs, lbdefs, extend) ==
    LET final_defs == IF clsdefs # <<>> THEN NewNames(clsdefs) ELSE lbdefs \o extend
        remapped == DictValues(DefMappings(clsdefs, lbdefs))
    IN  NotRemapped(DedupLast(final_defs, 1), 1, remapped)

\* the local variable "name" of _generate once the loop over
\* defmappings.items() has run: the loop rebinds it to every key in turn
NameAfterLoop(name, m) == IF m = <<>> THEN name ELSE m[Len(m)][1]

\* str.capitalize() on the names used
Capitalize(str) ==
    CASE str = "inputs" -> "Inputs"
      [] str = "outputs" -> "Outputs"
      [] str = "a" -> "A"
      [] str = "b" -> "B"
      [] str = "x" -> "X"
      [] str = "y" -> "Y"
      [] OTHER -> str

\* cls.__name__ of the class the bundle is generated for
ClsName == "Ind"

\* the class returned by _generate: its name (the two parts of the
\* concatenation), its __slots__, the aliases that are properties, and the
\* variable "name" that every property's getter and setter reads when called
GenClass(name, clsdefs, lbdefs, extend) ==
    LET m == DefMappings(clsdefs, lbdefs)
        cell == NameAfterLoop(name, m)
        lns == GenLines(clsdefs, lbdefs, extend)
    IN  [made |-> TRUE, kind |-> name, mappings |-> m,
         clsname |-> <<Capitalize(cell), ClsName>>,
         slots |-> lns, aliases |-> DictValues(m), name |-> cell,
         vals |-> [n \in {lns[i] : i \in 1..Len(lns)} |-> Unset],
         op |-> "_generate", arg |-> "", val |-> NoLine, got |-> NoRes]

\* the definitions _generate is called with: clsdefs, lbdefs, <kind>_extend
GenDefs ==
    { <<<<Remap("x", "a"), Remap("y", "b")>>, <<"a", "b">>, <<>>>>,
      <<<<Remap("x", "a")>>, <<"a">>, <<>>>>,
      <<<<Plain("x"), Plain("y")>>, <<"a", "b">>, <<>>>>,
      <<<<Plain("a"), Remap("y", "b")>>, <<"a", "b">>, <<>>>>,
      <<<<Plain("x")>>, <<>>, <<>>>>,
      <<<<>>, <<"a", "b">>, <<"x">>>> }

GenKinds == {"inputs", "outputs"}

\* the lines assigned to the members of the generated bundle
GenValues == {Warmed(Ramp, 1), Warmed(Ramp, 2)}

genframe == <<x, obj, nres, call, res, slots, md, heap, lines, members, last>>

\* _generate(cls, bases, dct, name=kind, klass=Lines), then an instance
Generate(kind, d) ==
    /\ ~gen.made
    /\ gen' = GenClass(kind, d[1], d[2], d[3])
    /\ UNCHANGED genframe

\* getattr(instance, attr) for a slot of the generated class
SlotGet(vals, attr) ==
    IF attr \notin DOMAIN vals THEN Raised("AttributeError")
    ELSE IF ~vals[attr].set THEN Raised("AttributeError")
    ELSE Returned(vals[attr].line)

\* instance.<attr>: a slot, or an alias whose property calls
\* get_alias_to_name: getattr(self, name)
AttrGet(attr) ==
    /\ gen.made
    /\ attr \in DOMAIN gen.vals \cup gen.aliases
    /\ gen' = [gen EXCEPT !.op = "get", !.arg = attr, !.val = NoLine,
                          !.got = IF attr \in gen.aliases THEN SlotGet(gen.vals, gen.name)
                                  ELSE SlotGet(gen.vals, attr)]
    /\ UNCHANGED genframe

\* instance.<attr> = val: a slot (Lines.__setattr__), or an alias whose
\* property calls set_alias_to_name: setattr(self, name, value)
AttrSet(attr, val) ==
    /\ gen.made
    /\ attr \in DOMAIN gen.vals \cup gen.aliases
    /\ LET target == IF attr \in gen.aliases THEN gen.name ELSE attr
       IN  gen' = [gen EXCEPT !.op = "set", !.arg = attr, !.val = val, !.got = NoRes,
                              !.vals = IF target \in DOMAIN gen.vals
                                       THEN [gen.vals EXCEPT ![target] = Member(WrapLine(val))]
                                       ELSE gen.vals]
    /\ UNCHANGED genframe

AllNames == {"a", "b", "x", "y"}

GenNext ==
    \/ \E kind \in GenKinds, d \in GenDefs : Generate(kind, d)
    \/ \E attr \in AllNames : AttrGet(attr)
    \/ \E attr \in AllNames, val \in GenValues : AttrSet(attr, val)

GenSpec == Init /\ [][GenNext]_vars

\* ================================================================== claims
\* what the specification calls effective_offset, seed_end and seed_start
EffectiveOffset(kw) == IF kw.poffset > 0 THEN kw.poffset ELSE kw.period
ClaimedSeedEnd(line, kw) == line.minperiod - 1 + EffectiveOffset(kw) - kw.pearly
ClaimedSeedStart(line, kw) == ClaimedSeedEnd(line, kw) - kw.period

\* an operation has been resolved on the window object made by x._ewm(**call.kw)
EwmResolved == obj.name = "_ewm" /\ nres = 1 /\ res.status = "line"

\* C1: the line returned by an operation resolved on x._ewm(...) has
\* minperiod seed_end = m - 1 + effective_offset - early, for every period,
\* poffset and early.
C1_MinperiodIsSeedEnd ==
    (EwmResolved /\ call.kw.period >= 1 /\ ClaimedSeedStart(x, call.kw) >= 0) => res.line.minperiod = ClaimedSeedEnd(x, call.kw)

\* the arithmetic mean and sum of a window, undefined if any element is
Mean_(w) == IF w = <<>> THEN NaN ELSE FDiv(FSumSeq(w), FInt(Len(w)))
ClaimedSeed(series, p1, p2, seed) ==
    IF seed = SEED_AVG THEN Mean_(SubSeq(series, p1 + 1, p2))
    ELSE IF seed = SEED_LAST THEN At(series, p2 - 1)
    ELSE IF seed = SEED_SUM THEN FSumSeq(SubSeq(series, p1 + 1, p2))
    ELSE NaN

\* C2: with seed_start >= 0, x._ewm(...) plants one seed at index seed_end - 1:
\* the mean of raw[seed_start:seed_end], the raw value at seed_end - 1, the sum
\* of the window, or nothing; the raw values from seed_end follow it, and every
\* position of a result before seed_end - 1 is undefined.
C2_SeedWindow ==
    (obj.name = "_ewm" /\ ClaimedSeedStart(x, call.kw) >= 0 /\ call.kw.period >= 1) =>
        LET p2 == ClaimedSeedEnd(x, call.kw)
            p1 == ClaimedSeedStart(x, call.kw)
        IN  /\ obj.minidx = p2 - 1
            /\ obj.trailer[1] = ClaimedSeed(x.series, p1, p2, call.kw.seed)
            /\ Tail(obj.trailer) = SubSeq(x.series, p2 + 1, Len(x.series))
            /\ res.status = "line" =>
                   \A i \in 0..(Len(x.series) - 1) :
                       i < p2 - 1 => IsNaN(At(res.line.series, i))

\* the window object was made with a period >= 1 and its seed window starts
\* at an index >= 0: the parameters the specification accepts
ValidEwm == obj.name = "_ewm" /\ obj.pval >= 1 /\ obj.minidx + 1 - obj.pval >= 0

\* a dynamic alpha line whose minperiod exceeds effective_offset was passed
DynAlphaExceeds == ValidEwm /\ call.kw.kind = "dynalpha"
                   /\ obj.alpha_p > EffectiveOffset(call.kw)

\* C3 as stated: whenever the dynamic alpha's minperiod a exceeds
\* effective_offset, the seed index seed_end - 1 is not before a - 1, for every
\* input minperiod and every early.
C3_SeedNotBeforeAlpha ==
    DynAlphaExceeds => obj.minidx >= obj.alpha_p - 1

\* C3 amended: whenever the dynamic alpha's minperiod a exceeds effective_offset
\* and early < m, the first index the recursion computes (seed_end) is not
\* before a - 1; the seed sits one index earlier, at seed_end - 1 >= a - 2.
C3_RecursionNotBeforeAlpha ==
    (DynAlphaExceeds /\ call.kw.pearly < x.minperiod) =>
        /\ obj.minidx + 1 >= obj.alpha_p - 1
        /\ obj.minidx >= obj.alpha_p - 2

\* C3 witness: the extension is in force and the seed sits right before the
\* first valid alpha
C3_Witness ==
    /\ DynAlphaExceeds /\ call.kw.pearly < x.minperiod
    /\ obj.minidx = obj.alpha_p - 2
    /\ obj.alpha_p > 2

\* the output the recursion owes at index i, with the alpha of index i
LockStep(series, alphas, prev, i) ==
    FAdd(prev, FMul(At(alphas, i), FSub(At(series, i), prev)))

\* C4: obj._mean() computes every index i from seed_end on as
\* prev + alpha[i] * (raw[i] - prev), prev being the seed at seed_end and the
\* output at i - 1 after it, for every input minperiod, period, poffset, early
\* and alpha minperiod.
C4_AlphaLockStep ==
    (ValidEwm /\ call.op = "_mean") =>
        /\ res.status = "line"
        /\ \A i \in (obj.minidx + 1)..(Len(x.series) - 1) :
               At(res.line.series, i) =
                   LockStep(x.series, obj.alpha_.series,
                            IF i = obj.minidx + 1 THEN obj.trailer[1]
                            ELSE At(res.line.series, i - 1), i)

\* the constant-alpha path on the same input and parameters:
\* x._ewm(span=p, ...)._mean_exp(alpha)
ConstantPath(line, kw, alpha) ==
    LET o == EwmObject(line, [kw EXCEPT !.kind = "span"], NoLine)
    IN  CallOp(line, o.minidx, GetAttrMinperiod(o),
               SmAcc(o.trailer, alpha, EffectiveBeta(alpha, None)))

\* C5: with a dynamic alpha line whose every element is the scalar alpha,
\* obj._mean() returns the line the constant-alpha path returns: same
\* minperiod, same value or NaN at every position.
C5_DynamicEqualsConstant ==
    (ValidEwm /\ call.op = "_mean" /\ obj.alpha_.series = ConstAlpha) =>
        res = Returned(ConstantPath(x, call.kw, Half))

\* the smoothing factors of the operation resolved last: the alpha and beta
\* passed to _mean_exp / _lfilter, or the alpha pandas derived for mean()
UsedAlpha == IF call.op = "mean" THEN obj.alpha ELSE call.alpha
ClaimedBeta == IF call.beta = None THEN FSub(FInt(1), UsedAlpha) ELSE call.beta

\* a smoothing op has returned a line grown from a defined seed
Smoothed ==
    /\ ValidEwm /\ EwmResolved
    /\ call.op \in {"mean", "_mean_exp", "_lfilter"}
    /\ ~IsNaN(obj.trailer[1])

\* C6: from seed_end on, result[i] = beta * result[i-1] + alpha * raw[i], with
\* beta = 1 - alpha unless a beta is supplied, for every supplied beta, 0
\* included; and period 3, mean seed, alpha 1/2 over 1,2,3,4,5,... gives 2 at
\* index 2, 3 at index 3 and 4 at index 4.
C6_Recursion ==
    /\ Smoothed =>
           \A i \in (obj.minidx + 1)..(Len(x.series) - 1) :
               At(res.line.series, i) =
                   FAdd(FMul(ClaimedBeta, At(res.line.series, i - 1)),
                        FMul(UsedAlpha, At(x.series, i)))
    /\ (Smoothed /\ x = Warmed(Ramp, 1) /\ UsedAlpha = Half /\ call.beta = None
          /\ call.kw.period = 3 /\ call.kw.poffset = 0 /\ call.kw.pearly = 0
          /\ call.kw.seed = SEED_AVG) =>
           /\ At(res.line.series, 2) = FInt(2)
           /\ At(res.line.series, 3) = FInt(3)
           /\ At(res.line.series, 4) = FInt(4)

\* every declared member of the bundle has been assigned
AllSet == \A i \in SlotIdx : slots[i].set

\* C7: whatever members have been assigned, the bundle's reported minperiod
\* is the maximum of its members' minperiods and its reported list is the
\* list of its members' minperiods.
C7_CacheNeverStale ==
    AllSet =>
        /\ BundleMinperiods = [i \in SlotIdx |-> slots[i].line.minperiod]
        /\ \A i \in SlotIdx : BundleMinperiod >= slots[i].line.minperiod
        /\ \E i \in SlotIdx : BundleMinperiod = slots[i].line.minperiod

\* an op has been resolved on the window object made by x.rolling(window=p)
RollingResolved == obj.name = "rolling" /\ nres = 1 /\ res.status = "line"

OtherMinperiod == IF call.other.is_line THEN call.other.minperiod ELSE 1
OtherAt(i) == IF call.other.is_line THEN At(call.other.series, i) ELSE call.other.scalar

\* C9: a binary op on lines of minperiods m1 and m2 (a number counts as 1)
\* returns a line of minperiod max(m1, m2) with a[i] op b[i] at every index
\* i >= max(m1, m2) - 1 and undefined before.
C9_BinaryOp ==
    call.op \in BinOps =>
        LET mp == Max2(x.minperiod, OtherMinperiod)
        IN  /\ res.status = "line"
            /\ res.line.minperiod = mp
            /\ \A i \in 0..(Len(x.series) - 1) :
                   At(res.line.series, i) =
                       IF i >= mp - 1 THEN BinFn(call.op, At(x.series, i), OtherAt(i))
                       ELSE NaN

\* C9 witness: the other operand is a line with the longer warm-up, and the
\* result holds a value
C9_Witness ==
    /\ call.op \in BinOps /\ call.other.is_line
    /\ call.other.minperiod > x.minperiod
    /\ ~IsNaN(At(res.line.series, call.other.minperiod - 1))

\* the call was rejected for its parameters: a ConfigurationError, for which
\* the ValueError of pandas' own parameter validation is accepted too
ConfigurationError ==
    res.status = "error" /\ res.err \in {"ConfigurationError", "ValueError"}

\* C10: x._ewm(...) with period <= 0 or seed_start < 0 raises a
\* ConfigurationError and returns nothing, and so does a standard op whose
\* period argument is <= 0.
C10_ConfigurationError ==
    /\ (call.kw.kind \in EwmKinds
          /\ (call.kw.period <= 0 \/ ClaimedSeedStart(x, call.kw) < 0)) =>
           ConfigurationError
    /\ (call.op = "shift" /\ call.kw.kind = "periods" /\ call.p <= 0) =>
           ConfigurationError

\* the dynamic alpha has fewer valid elements than there are positions from
\* seed_end to the end of the input
ShortAlpha ==
    /\ ValidEwm /\ call.op = "_mean"
    /\ Len(DynAlphas(obj)) < Len(obj.trailer) - 1

\* the operation was rejected for the length of its dynamic alpha: an
\* AlignmentError, for which Python's own IndexError is accepted too
AlignmentError ==
    res.status = "error" /\ res.err \in {"AlignmentError", "IndexError"}

\* C11: obj._mean() with a dynamic alpha that has fewer valid elements than
\* there are positions from seed_end on fails with an AlignmentError; it never
\* returns a line whose last positions hold the raw input.
C11_ShortAlphaRejected ==
    ShortAlpha => AlignmentError

\* C12: every Line object made by a construction, a binary, standard, rolling
\* or smoothing op, or adjusted by _INCPERIOD / _DECPERIOD, has a minperiod of
\* at least 1.
C12_MinperiodAtLeastOne ==
    \A l \in LineIds : lines[l].minperiod >= 1

\* the operations of the operator families, as recorded in last.op
OperatorOps == {"__add__", "shift", "reduction", "sum", "mean"}

\* the step is the application of an operator
OperatorStep == last' # last /\ last'.op \in OperatorOps

\* C13: the application of a binary, standard, reduction, rolling or smoothing
\* op leaves the minperiod and the values of every existing Line as they were,
\* and a Line it returns is a new object over a new Series.
C13_OperandsUnchanged ==
    [][OperatorStep =>
          /\ \A l \in LineIds : lines'[l] = lines[l] /\ LineVal(l)' = LineVal(l)
          /\ \A s \in 1..Len(heap) : heap'[s] = heap[s]
          /\ last'.op # "reduction" =>
                 /\ last'.ret = Len(lines) + 1
                 /\ Len(lines') = Len(lines) + 1
                 /\ lines'[last'.ret].ser = Len(heap) + 1]_vars

\* C13 witness: a standard op has returned a line with a longer minperiod than
\* its operand, itself the result of an op
C13_Witness ==
    /\ last.op = "shift" /\ last.ret > 0
    /\ lines[last.self].minperiod >= 2
    /\ lines[last.ret].minperiod > lines[last.self].minperiod
    /\ lines[last.ret].ser # lines[last.self].ser

\* the last operation wrapped a Line, or the first member of a bundle
Wrapped == last.op \in {"Line(line)", "Line(lines)"} /\ last.ret > 0

\* C14: Line(series) on a raw Series has minperiod 1 and the Series' values;
\* Line(val) on a Line, or on a bundle for its first member, has val's
\* minperiod and values, also when val is itself such a wrapper.
C14_WrapIdempotent ==
    /\ last.op = "Line(series)" =>
           /\ lines[last.ret].minperiod = 1
           /\ heap[lines[last.ret].ser] = heap[1]
    /\ Wrapped =>
           /\ lines[last.ret].minperiod = lines[last.self].minperiod
           /\ heap[lines[last.ret].ser] = heap[lines[last.self].ser]
           /\ \A l \in LineIds :
                  LineVal(l) = LineVal(last.self) => LineVal(l) = LineVal(last.ret)

\* C14 witness: a wrapper of the line x, which has a warm-up, has been wrapped
\* again
C14_Witness ==
    /\ Wrapped /\ last.self > 1
    /\ lines[last.self].ser = lines[1].ser
    /\ lines[1].minperiod >= 2
    /\ lines[last.ret].minperiod = lines[1].minperiod

\* C15: a standard op installed with a period argument and an overlap (0 when
\* none is given), called with period p on a line of minperiod m, returns a
\* line of minperiod m + p - overlap and leaves the operand's minperiod at m.
C15_StandardMinperiod ==
    [][(last' # last /\ last'.op = "shift") =>
          /\ StandardOverlap = 0
          /\ lines'[last'.ret].minperiod = lines[last'.self].minperiod + last'.other
          /\ lines'[last'.self].minperiod = lines[last'.self].minperiod]_vars

\* C15 witness: with an overlap of 1 and a period of 0 the result's minperiod
\* is one less than the operand's
C15_Witness ==
    /\ last.op = "shift" /\ last.other = -1
    /\ lines[last.self].minperiod >= 2
    /\ lines[last.ret].minperiod = lines[last.self].minperiod - 1

\* the last call asked the bundle for a member by a name it does not declare
UndeclaredAccess ==
    /\ call.op \in {"__getattr__", "__getitem__", "_get"}
    /\ call.kw.kind \in Names /\ ~Declared(call.kw.kind)

\* the retrieval failed for the name: a KeyError, for which Python's
\* AttributeError and the ValueError of list.index are accepted too
KeyErrorEquivalent ==
    res.status = "error" /\ res.err \in {"KeyError", "AttributeError", "ValueError"}

\* C16: asking a bundle, by name, for a name it does not declare fails with a
\* KeyError-equivalent error and returns nothing.
C16_UndeclaredNameFails ==
    UndeclaredAccess => KeyErrorEquivalent

\* the member the bundle holds for a line assigned to it: the line's minperiod
\* and values
Holds(i, val) ==
    /\ slots[i].set
    /\ slots[i].line.minperiod = val.minperiod
    /\ slots[i].line.series = val.series

\* C17: for a bundle declared with the names n_0..n_k, the value given at
\* position j, at construction or by index assignment, or assigned to the name
\* n_j, is the member at position j; retrieval by position j and by name n_j
\* return that member; iteration yields the members, and keys the names, in
\* declaration order.
C17_PositionAndName ==
    /\ call.op = "__init__" => \A j \in 1..Len(call.other) : Holds(j, call.other[j])
    /\ call.op \in {"__setitem__", "__setattr__"} => Holds(call.p, call.other)
    /\ \A j \in SlotIdx :
           /\ (call.op = "__getitem__" /\ call.kw.kind = "int" /\ call.p = j - 1
                 /\ slots[j].set) => res = Returned(slots[j].line)
           /\ (call.op \in {"__getitem__", "__getattr__", "_get"} /\ call.kw.kind = Slots[j]
                 /\ slots[j].set) => res = Returned(slots[j].line)
    /\ (call.op = "__iter__" /\ AllSet) => res = Yielded([j \in SlotIdx |-> slots[j].line])
    /\ call.op = "keys" => res = Yielded(Slots)

\* C17 witness: the member at position 1 has been retrieved by position, and
\* it differs from the members before and after it
C17_Witness ==
    /\ call.op = "__getitem__" /\ call.kw.kind = "int" /\ call.p = 1
    /\ AllSet /\ res = Returned(slots[2].line)
    /\ slots[1].line # slots[2].line
    /\ slots[3].line # slots[2].line

\* the new name the definition maps the old name to
MappedTo(old) == (CHOOSE i \in 1..Len(gen.mappings) : gen.mappings[i][2] = old)

\* C18: on a bundle class generated from a definition that remaps names, old
\* name by old name, reading old_i gives the member new_i and writing old_i
\* sets the member new_i; the class is named after the definition kind,
\* Inputs... or Outputs...
SeveralRemapped == gen.made /\ Len(gen.mappings) >= 2

C18_RemapEachName ==
    SeveralRemapped =>
        /\ gen.clsname = <<Capitalize(gen.kind), ClsName>>
        /\ (gen.op = "get" /\ gen.arg \in gen.aliases) =>
               gen.got = SlotGet(gen.vals, gen.mappings[MappedTo(gen.arg)][1])
        /\ (gen.op = "set" /\ gen.arg \in gen.aliases) =>
               gen.vals[gen.mappings[MappedTo(gen.arg)][1]] = Member(WrapLine(gen.val))

\* the window object as it is right after rolling / _ewm built it on x, seeded
\* or not as the object was when the last operation was resolved
FreshObject ==
    LET o == IF obj.name = "rolling" THEN RollingObject(x, obj.pval, obj.pset)
             ELSE EwmObject(x, call.kw, obj.alpha_)
    IN  IF obj.is_seeded THEN Seeded(o) ELSE o

\* C19: every value resolved on a window object, the first operation or a later
\* one on the same object, has the minperiod the operation gives when resolved
\* alone on a fresh window object of the same input and window parameters
C19_ReuseSameMinperiod ==
    (nres >= 1 /\ res.status = "line") =>
        res.line.minperiod = GetAttrMinperiod(FreshObject)

\* the last operation made a wrapper last.ret of the Line last.self
WrapperMade == last.op \in {"Line(line)", "__setattr__"} /\ last.ret > 0

\* C20: a wrapper made by Line(line), or by assigning a Line to a bundle member,
\* owns its backing sequence: an index-based assignment through the wrapper
\* right after leaves the values read through the original as they were, and an
\* assignment through the original leaves the wrapper's
C20_WrapperOwnsSeries ==
    [][(/\ WrapperMade
        /\ last'.op = "__setitem__"
        /\ last'.self \in {last.self, last.ret})
       => \A l \in {last.self, last.ret} \ {last'.self} : LineVal(l)' = LineVal(l)]_vars

====
